---------------------------- MODULE Spec2Model ----------------------------
(***************************************************************************)
(* cerberus-mergeguard: the webhook gateway (pkg/server), the GitHub       *)
(* client with its event handlers (pkg/client) and the check-run REST      *)
(* calls (pkg/client/api.go).                                              *)
(*                                                                         *)
(* Strings and byte slices are sequences of one-character strings; the    *)
(* empty string is <<>>.                                                   *)
(***************************************************************************)
EXTENDS Integers, Sequences, FiniteSets, TLC

VARIABLES
    secret,      \* GithubConfig.WebhookSecret of the running server
    pc,          \* pc[g]: where goroutine g stands in webhookHandler
    ev,          \* ev[g]: the decoded event goroutine g passed to its event handler
    runs,        \* runs[g]: the event handlers run for the request g is serving or served last
    status,      \* status[g]: status of the response g wrote after its handler returned (0: none)
    last,        \* the request most recently received, and what webhookHandler did with it
    applied,     \* per check name, the check run of the last event HandleCheckRunEvent was run on
    guardCalls,  \* the check-run API calls the event handlers have issued for the guard
    sigCase,     \* one call of verifyWebhookSignature: its arguments and its result
    api,         \* a PRClient and the call last made on it: requests issued, response, result
    githubConfig,\* GithubConfig of the GithubClient: ClientID, PrivateKey, API
    tokenCalls,  \* tokenCalls[g]: goroutine g's call of GetInstallationAccessToken
    exchanges,   \* the POSTs to the access-token endpoint, in the order they were sent
    clock,       \* the wall clock time.Now() reads, in ticks
    loadCall     \* the start of the program: run's call of config.LoadConfig and what follows

vars == <<secret, pc, ev, runs, status, last, applied, guardCalls, sigCase,
          api, githubConfig, tokenCalls, exchanges, clock, loadCall>>

----------------------------------------------------------------------------
(* Bounds *)

\* Most POSTs to the access-token endpoint in one run.
MaxExchanges == 3

\* Most ticks the clock advances in one run.
MaxElapsed == 3

\* Longest body handed to verifyWebhookSignature on its own.
MaxBodyLen == 2

\* Number of requests net/http serves at the same time (one goroutine each).
MaxInFlight == 2

----------------------------------------------------------------------------
(* Strings *)

IsPrefix(p, s) == Len(p) <= Len(s) /\ SubSeq(s, 1, Len(p)) = p

\* strings.CutPrefix(s, prefix): s without the leading prefix, once; s itself
\* when it does not start with prefix.
CutPrefix(s, prefix) == IF IsPrefix(prefix, s) THEN SubSeq(s, Len(prefix) + 1, Len(s)) ELSE s

SignaturePrefix == <<"s", "h", "a", "2", "5", "6", "=">>

HexDigits == <<"0", "1", "2", "3", "4", "5", "6", "7", "8", "9", "a", "b", "c", "d", "e", "f">>

RECURSIVE SprintfHex(_)
\* fmt.Sprintf("%x", sum): two lowercase hex digits per byte.
SprintfHex(sum) ==
    IF sum = <<>> THEN <<>>
    ELSE <<HexDigits[(Head(sum) \div 16) + 1], HexDigits[(Head(sum) % 16) + 1]>>
         \o SprintfHex(Tail(sum))

\* The byte alphabet of bodies and secrets, with each byte's value.
ByteVal(b) ==
    CASE b = "{" -> 1 [] b = "}" -> 2 [] b = "P" -> 3 [] b = "B" -> 4
      [] b = "T" -> 5 [] b = "L" -> 6 [] b = "Q" -> 7 [] b = "N" -> 8
      [] b = "k" -> 1 [] b = "j" -> 2

RECURSIVE BytesCode(_, _)
\* The bytes read as a number in the given base (every byte value is >= 1, so
\* two different byte strings never share a code).
BytesCode(bytes, base) ==
    IF bytes = <<>> THEN 0
    ELSE BytesCode(SubSeq(bytes, 1, Len(bytes) - 1), base) * base
         + ByteVal(bytes[Len(bytes)])

\* hmac.New(sha256.New, secret); Write(body); Sum(nil).  HMAC-SHA256 is
\* library code: it is modelled as a keyed function that is collision-free on
\* the bodies and secrets of the model, with a two-byte sum.
HMACSum(key, body) ==
    LET n == BytesCode(key, 3) * 4096 + BytesCode(body, 9)
    IN  <<(n \div 256) % 256, n % 256>>

\* verifyWebhookSignature without the CutPrefix of the header value.
verifyWithoutCutPrefix(body, key, signature) ==
    IF SprintfHex(HMACSum(key, body)) # signature THEN "mismatch" ELSE "nil"

\* verifyWebhookSignature(body, secret, signature): "nil" or the error.
verifyWebhookSignature(body, key, signature) ==
    LET expectedSignature == SprintfHex(HMACSum(key, body))
        sig == CutPrefix(signature, SignaturePrefix)
    IN  IF expectedSignature # sig THEN "mismatch" ELSE "nil"

----------------------------------------------------------------------------
(* Payloads: encoding/json on the bodies of the model *)

\* CheckRun, the fields the model follows (the zero value has them empty).
ZeroCheckRun == [Name |-> "", Status |-> "", Conclusion |-> ""]

CheckNames == {"build", "test", "lint"}

NoEvent == [Action |-> "", CheckRun |-> ZeroCheckRun]

\* The JSON documents of the model, one byte each between the braces:
\*   P  a pull_request payload, action opened
\*   B  check_run build completed/success      T  test completed/success
\*   L  check_run lint completed/failure       Q  check_run lint in_progress
\*   N  an object whose "action" is a number (a type json.Unmarshal rejects)
DocBytes == {"P", "B", "T", "L", "Q", "N"}

JSONSyntaxOK(body) ==
    Len(body) = 3 /\ body[1] = "{" /\ body[3] = "}" /\ body[2] \in DocBytes

DocAction(d) ==
    CASE d = "P" -> "opened"
      [] d \in {"B", "T", "L"} -> "completed"
      [] d = "Q" -> "created"

DocCheckRun(d) ==
    CASE d = "B" -> [Name |-> "build", Status |-> "completed", Conclusion |-> "success"]
      [] d = "T" -> [Name |-> "test", Status |-> "completed", Conclusion |-> "success"]
      [] d = "L" -> [Name |-> "lint", Status |-> "completed", Conclusion |-> "failure"]
      [] d = "Q" -> [Name |-> "lint", Status |-> "in_progress", Conclusion |-> ""]
      [] OTHER -> ZeroCheckRun

\* Unmarshal with its error dropped.
UnmarshalDroppingError(body, target) ==
    [err |-> "nil",
     event |-> IF JSONSyntaxOK(body) /\ body[2] # "N"
               THEN [Action |-> DocAction(body[2]), CheckRun |-> ZeroCheckRun]
               ELSE NoEvent]

\* json.Unmarshal(body, &event): the error and the event it filled. Fields
\* the target type does not declare are ignored, so a check_run payload
\* decodes into a PullRequestEvent (and the reverse) without error.
Unmarshal(body, target) ==
    IF ~JSONSyntaxOK(body) THEN [err |-> "syntax", event |-> NoEvent]
    ELSE IF body[2] = "N" THEN [err |-> "type", event |-> NoEvent]
    ELSE [err |-> "nil",
          event |-> [Action |-> DocAction(body[2]),
                     CheckRun |-> IF target = "CheckRunEvent"
                                  THEN DocCheckRun(body[2]) ELSE ZeroCheckRun]]

----------------------------------------------------------------------------
(* Server.webhookHandler *)

StatusOK == 200

StatusBadRequest == 400

StatusUnauthorized == 401

\* The check of the missing header left out.
MissingSignatureUnchecked(signatureHeader) == FALSE

\* if signatureHeader == "" && s.github.WebhookSecret != "": the request
\* is refused for its missing header.
MissingSignature(signatureHeader) == signatureHeader = <<>> /\ secret # <<>>

\* The guard of the signature check, with the configured secret forgotten.
MustVerifyWithoutSecret(signatureHeader) == signatureHeader # <<>>

\* if signatureHeader != "" && s.github.WebhookSecret != "": the signature
\* is verified.
MustVerify(signatureHeader) == signatureHeader # <<>> /\ secret # <<>>

\* The switch with its default case taken for a pull request handler.
HandlerForDefaultingToPullRequest(eventType) ==
    IF eventType = "check_run" THEN "HandleCheckRunEvent" ELSE "HandlePullRequestEvent"

\* switch req.Header.Get("X-GitHub-Event"): the event handler of each case
\* ("none": the default case, which only logs).
HandlerFor(eventType) ==
    CASE eventType = "pull_request" -> "HandlePullRequestEvent"
      [] eventType = "check_run" -> "HandleCheckRunEvent"
      [] OTHER -> "none"

\* var event client.PullRequestEvent / client.CheckRunEvent of each case.
TargetOf(handler) ==
    IF handler = "HandleCheckRunEvent" THEN "CheckRunEvent" ELSE "PullRequestEvent"

\* webhookHandler up to the point where it returns or calls an event
\* handler: the status it wrote with WriteHeader (0: none written), the
\* stage it got to, what became of the signature check, the event handler
\* it calls ("none": it calls none) and the event it passes.
HandlerResult(signatureHeader, eventType, body, readErr) ==
    LET stop(st, stage, verify) ==
            [status |-> st, stage |-> stage, verify |-> verify,
             handler |-> "none", event |-> NoEvent]
        switch(verify) ==
            IF HandlerFor(eventType) = "none" THEN stop(0, "unhandled", verify)
            ELSE LET u == Unmarshal(body, TargetOf(HandlerFor(eventType)))
                 IN  IF u.err # "nil" THEN stop(StatusBadRequest, "decode", verify)
                     ELSE [status |-> 0, stage |-> "handler", verify |-> verify,
                           handler |-> HandlerFor(eventType), event |-> u.event]
    IN  IF MissingSignature(signatureHeader)
        THEN stop(StatusBadRequest, "header", "none")
        ELSE IF readErr
        THEN stop(StatusBadRequest, "read", "none")
        ELSE IF MustVerify(signatureHeader)
        THEN IF verifyWebhookSignature(body, secret, signatureHeader) # "nil"
             THEN stop(StatusUnauthorized, "signature", "failed")
             ELSE switch("passed")
        ELSE switch("none")

----------------------------------------------------------------------------
(* The state outside a run of the server or of verifyWebhookSignature *)

Goroutines == 1 .. MaxInFlight

NoRequest ==
    [signature |-> <<>>, eventType |-> "", body |-> <<>>, readErr |-> FALSE,
     stage |-> "no request", verify |-> "none", handler |-> "none", status |-> 0]

NoSigCase ==
    [body |-> <<>>, key |-> <<>>, signature |-> <<>>, err |-> "unused", origin |-> "given"]

ServerIdle ==
    /\ pc = [g \in Goroutines |-> "idle"]
    /\ ev = [g \in Goroutines |-> NoEvent]
    /\ runs = [g \in Goroutines |-> <<>>]
    /\ status = [g \in Goroutines |-> 0]
    /\ last = NoRequest
    /\ applied = [n \in CheckNames |-> ZeroCheckRun]
    /\ guardCalls = <<>>

ServerUnchanged == UNCHANGED <<secret, pc, ev, runs, status, last, applied, guardCalls>>

\* PRClient{}: the zero value, no call made on it.
\* CheckRun as a payload of the REST calls: the fields the model follows.
ZeroPayload == [ID |-> 0, Name |-> "", HeadSHA |-> "", Status |-> "", Conclusion |-> ""]

\* No response: the request was not sent.
NoResponse == [transportErr |-> FALSE, status |-> 0, bodyOK |-> FALSE]

NoCall ==
    [client |-> [repoURL |-> "", commit |-> "", token |-> ""], op |-> "none",
     name |-> "", payload |-> ZeroPayload, requests |-> <<>>,
     response |-> NoResponse, err |-> "nil", result |-> <<>>]

\* No response of the access-token endpoint: the request was not sent, or
\* is not answered yet.
NoTokenResponse == [transportErr |-> FALSE, status |-> 0, body |-> "none"]

\* A goroutine that is not in GetInstallationAccessToken and has not been.
NoTokenCall ==
    [pc |-> "idle", installation |-> 0, exchange |-> 0,
     response |-> NoTokenResponse, token |-> "", err |-> "nil"]

\* The GithubClient before any call of GetInstallationAccessToken, and no
\* PRClient in use.
TokenIdle ==
    /\ githubConfig = [ClientID |-> "", PrivateKey |-> "", API |-> ""]
    /\ tokenCalls = [g \in Goroutines |-> NoTokenCall]
    /\ exchanges = <<>>
    /\ clock = 0

\* Config{}: the zero value.
ZeroConfig ==
    [LogLevel |-> "",
     Server |-> [Port |-> 0, SSL |-> [Enabled |-> FALSE, Cert |-> "", Key |-> ""]],
     Github |-> [ClientID |-> "", PrivateKey |-> "", WebhookSecret |-> "", API |-> ""]]

\* A YAML document with none of the keys the model follows.
EmptyDoc ==
    [logLevel |-> <<>>, sslEnabled |-> <<>>, sslCert |-> <<>>, sslKey |-> <<>>,
     clientID |-> <<>>, privateKey |-> <<>>]

\* No file at the path of the configuration.
MissingFile == [state |-> "missing", yamlOK |-> FALSE, doc |-> EmptyDoc]

\* run has not called LoadConfig.  logLevel is the level of the logger
\* (a slog.LevelVar starts at INFO).
NoLoad ==
    [pc |-> "none", path |-> "", env |-> FALSE, logLevelOverride |-> "",
     file |-> MissingFile, appID |-> "",
     fileConfig |-> ZeroConfig, fileErr |-> "nil",
     config |-> ZeroConfig, err |-> "nil", logLevel |-> "INFO"]

ConfigIdle == loadCall = NoLoad

ClientIdle == api = NoCall /\ TokenIdle /\ ConfigIdle

ClientUnchanged == UNCHANGED <<api, githubConfig, tokenCalls, exchanges, clock, loadCall>>

----------------------------------------------------------------------------
(* verifyWebhookSignature on its own: TestVerifyWebhookSignature's shape,   *)
(* over every body, secret and header value of the bounded sets             *)

SeqsUpTo(S, n) == UNION {[1 .. k -> S] : k \in 0 .. n}

SigBodyBytes == {"{", "P", "}"}

SigBodies == SeqsUpTo(SigBodyBytes, MaxBodyLen)

SigKeys == {<<>>, <<"k">>, <<"j">>}

\* The characters a header value is changed to, one position at a time.
SigChars == {"0", "1", "a", "A", "=", "s"}

OneByteChanges(s, chars) ==
    {[s EXCEPT ![i] = c] : i \in DOMAIN s, c \in chars} \ {s}

BareSignature(body, key) == SprintfHex(HMACSum(key, body))

HeaderSignature(body, key) == SignaturePrefix \o BareSignature(body, key)

\* Header values tried for one body and secret: the right one with and
\* without the prefix, every one-character change of either, the empty value,
\* the bare prefix, a doubled prefix, and the right values of other bodies
\* and secrets.
SigHeaderValues(body, key) ==
    {HeaderSignature(body, key), BareSignature(body, key), <<>>, SignaturePrefix,
     SignaturePrefix \o HeaderSignature(body, key)}
    \cup OneByteChanges(HeaderSignature(body, key), SigChars)
    \cup OneByteChanges(BareSignature(body, key), SigChars)
    \cup {HeaderSignature(b, k) : b \in SigBodies, k \in SigKeys}

InitSig ==
    /\ secret = <<>>
    /\ ServerIdle
    /\ \E body \in SigBodies, key \in SigKeys :
         \E signature \in SigHeaderValues(body, key) :
            sigCase = [body |-> body, key |-> key, signature |-> signature,
                       err |-> "pending", origin |-> "given"]
    /\ ClientIdle

\* err := verifyWebhookSignature(body, secret, signature)
VerifySignature ==
    /\ sigCase.err = "pending"
    /\ sigCase' = [sigCase EXCEPT
                     !.err = verifyWebhookSignature(sigCase.body, sigCase.key, sigCase.signature)]
    /\ ServerUnchanged
    /\ ClientUnchanged

\* A verified delivery is sent again with one byte of its body changed.
ChangeBodyByte ==
    /\ sigCase.err = "nil"
    /\ \E i \in DOMAIN sigCase.body :
         \E b \in SigBodyBytes \ {sigCase.body[i]} :
          sigCase' = [sigCase EXCEPT !.body = [sigCase.body EXCEPT ![i] = b],
                                     !.err = "pending", !.origin = "body changed"]
    /\ ServerUnchanged
    /\ ClientUnchanged

\* A verified delivery is sent again with one byte of its header value changed.
ChangeSignatureByte ==
    /\ sigCase.err = "nil"
    /\ \E i \in DOMAIN sigCase.signature :
         \E c \in SigChars \ {sigCase.signature[i]} :
          sigCase' = [sigCase EXCEPT !.signature = [sigCase.signature EXCEPT ![i] = c],
                                     !.err = "pending", !.origin = "signature changed"]
    /\ ServerUnchanged
    /\ ClientUnchanged

NextSig == VerifySignature \/ ChangeBodyByte \/ ChangeSignatureByte

SpecSig == InitSig /\ [][NextSig]_vars

\* C3: verifyWebhookSignature returns nil exactly when the header value,
\* with one leading "sha256=" removed, is the lowercase hex HMAC of the body
\* under the secret; and a delivery that verified no longer verifies once a
\* single byte of its body or of its header value has been changed.
C3_VerifyExact ==
    sigCase.err \in {"nil", "mismatch"} =>
        /\ sigCase.err = "nil" <=>
             \/ sigCase.signature = BareSignature(sigCase.body, sigCase.key)
             \/ sigCase.signature = HeaderSignature(sigCase.body, sigCase.key)
        /\ sigCase.origin \in {"body changed", "signature changed"} => sigCase.err = "mismatch"

C3_Witness ==
    /\ sigCase.origin = "signature changed"
    /\ sigCase.err = "mismatch"
    /\ IsPrefix(SignaturePrefix, sigCase.signature)

----------------------------------------------------------------------------
(* The server: one goroutine per request (net/http), each running           *)
(* webhookHandler, which calls the event handlers of the GithubClient        *)

\* The secret GitHub signs its deliveries with.
GithubKey == <<"k">>

\* WebhookSecret as configured: none, or GitHub's.
Secrets == {<<>>, GithubKey}

EventTypes == {"pull_request", "check_run", "push"}

\* Request bodies: every document of the model, and a truncated one.
GatewayBodies == {<<"{", d, "}">> : d \in DocBytes} \cup {<<"{", "P">>}

\* X-Hub-Signature-256 of a request with this body: absent, GitHub's
\* signature of the body, or the signature of another body.
SignatureHeaders(body) ==
    {<<>>, HeaderSignature(body, GithubKey), HeaderSignature(<<"}">>, GithubKey)}

\* Every request of the model: any header value, event type and body, and
\* the request whose body cannot be read (io.ReadAll fails).
AllRequests ==
    UNION {{[signature |-> h, eventType |-> e, body |-> b, readErr |-> FALSE] :
               h \in SignatureHeaders(b), e \in EventTypes} : b \in GatewayBodies}
    \cup {[signature |-> h, eventType |-> e, body |-> <<>>, readErr |-> TRUE] :
               h \in SignatureHeaders(<<>>), e \in EventTypes}

\* What GitHub delivers: a signed payload under the event type it belongs to.
GithubDeliveries ==
    {[signature |-> HeaderSignature(<<"{", d, "}">>, GithubKey),
      eventType |-> IF d = "P" THEN "pull_request" ELSE "check_run",
      body |-> <<"{", d, "}">>, readErr |-> FALSE] : d \in DocBytes \ {"N"}}

\* func (c *GithubClient) HandlePullRequestEvent(event PullRequestEvent):
\* "TODO: Implement", an empty body.
HandlePullRequestEvent(event) == UNCHANGED guardCalls

\* HandleCheckRunEvent that creates a guard check run on every event.
HandleCheckRunEventCreatingGuard(event) ==
    guardCalls' = Append(guardCalls, [call |-> "CreateCheckRun", Status |-> "pending",
                                      Conclusion |-> ""])

\* HandleCheckRunEvent that reports the guard as succeeded on every event.
HandleCheckRunEventReportingSuccess(event) ==
    guardCalls' = Append(guardCalls, [call |-> "UpdateCheckRun", Status |-> "completed",
                                      Conclusion |-> "success"])

\* func (c *GithubClient) HandleCheckRunEvent(event CheckRunEvent):
\* "TODO: Implement", an empty body.
HandleCheckRunEvent(event) == UNCHANGED guardCalls

Init ==
    /\ secret \in Secrets
    /\ ServerIdle
    /\ sigCase = NoSigCase
    /\ ClientIdle

\* Goroutine g serves one of the requests: webhookHandler from its first
\* line to the return (the response is then complete) or to the call of an
\* event handler.
webhookHandler(g, requests) ==
    /\ pc[g] = "idle"
    /\ \E q \in requests :
         LET r == HandlerResult(q.signature, q.eventType, q.body, q.readErr)
         IN  /\ last' = [signature |-> q.signature, eventType |-> q.eventType,
                         body |-> q.body, readErr |-> q.readErr,
                         stage |-> r.stage, verify |-> r.verify, handler |-> r.handler,
                         status |-> IF r.handler # "none" THEN 0
                                    ELSE IF r.status = 0 THEN StatusOK ELSE r.status]
             /\ pc' = [pc EXCEPT ![g] = IF r.handler = "none" THEN "idle" ELSE r.handler]
             /\ ev' = [ev EXCEPT ![g] = r.event]
             /\ runs' = [runs EXCEPT ![g] = <<>>]
             /\ status' = [status EXCEPT ![g] = 0]
    /\ UNCHANGED <<secret, applied, guardCalls, sigCase>>
    /\ ClientUnchanged

\* s.github.HandlePullRequestEvent(event) runs and returns to webhookHandler.
RunPullRequestHandler(g) ==
    /\ pc[g] = "HandlePullRequestEvent"
    /\ HandlePullRequestEvent(ev[g])
    /\ runs' = [runs EXCEPT ![g] = Append(runs[g], "HandlePullRequestEvent")]
    /\ pc' = [pc EXCEPT ![g] = "returned"]
    /\ UNCHANGED <<secret, ev, status, last, applied, sigCase>>
    /\ ClientUnchanged

\* s.github.HandleCheckRunEvent(event) runs and returns to webhookHandler.
\* applied records the event it was run on.
RunCheckRunHandler(g) ==
    /\ pc[g] = "HandleCheckRunEvent"
    /\ HandleCheckRunEvent(ev[g])
    /\ applied' = IF ev[g].CheckRun.Name \in CheckNames
                  THEN [applied EXCEPT ![ev[g].CheckRun.Name] = ev[g].CheckRun]
                  ELSE applied
    /\ runs' = [runs EXCEPT ![g] = Append(runs[g], "HandleCheckRunEvent")]
    /\ pc' = [pc EXCEPT ![g] = "returned"]
    /\ UNCHANGED <<secret, ev, status, last, sigCase>>
    /\ ClientUnchanged

\* webhookHandler returns after the event handler did, no WriteHeader
\* called: net/http completes the response with 200.
WriteResponse(g) ==
    /\ pc[g] = "returned"
    /\ pc' = [pc EXCEPT ![g] = "idle"]
    /\ status' = [status EXCEPT ![g] = StatusOK]
    /\ ev' = [ev EXCEPT ![g] = NoEvent]
    /\ UNCHANGED <<secret, runs, last, applied, guardCalls, sigCase>>
    /\ ClientUnchanged

\* The server under GitHub's deliveries, its requests served concurrently.
Next ==
    \E g \in Goroutines :
        \/ webhookHandler(g, GithubDeliveries)
        \/ RunPullRequestHandler(g)
        \/ RunCheckRunHandler(g)
        \/ WriteResponse(g)

Spec == Init /\ [][Next]_vars

\* The server under every request of the model, served one after the other.
NextGateway ==
    \/ webhookHandler(1, AllRequests)
    \/ RunPullRequestHandler(1)
    \/ RunCheckRunHandler(1)
    \/ WriteResponse(1)

SpecGateway == Init /\ [][NextGateway]_vars

----------------------------------------------------------------------------
(* The webhook gateway's claims, under SpecGateway *)

\* The request served last has its response.
Responded ==
    /\ last.stage # "no request"
    /\ last.handler = "none" \/ (pc[1] = "idle" /\ status[1] # 0)

\* The status of that response.
ResponseStatus == IF last.handler = "none" THEN last.status ELSE status[1]

\* The header value is the HMAC of the body under the configured secret,
\* with or without the "sha256=" prefix.
SignatureValid(q) ==
    q.signature \in {HeaderSignature(q.body, secret), BareSignature(q.body, secret)}

Supported(q) == q.eventType \in {"pull_request", "check_run"}

\* The body was read and is a JSON object whose fields have the types the
\* event structs declare.
Decodable(q) == ~q.readErr /\ JSONSyntaxOK(q.body) /\ q.body[2] # "N"

Authenticated(q) == secret = <<>> \/ (~q.readErr /\ SignatureValid(q))

MatchingHandler(q) ==
    IF q.eventType = "pull_request" THEN "HandlePullRequestEvent" ELSE "HandleCheckRunEvent"

\* C1 as stated: 401 when a secret is configured and the signature is wrong
\* or absent, otherwise 400 for an undecodable body of a supported event
\* type, otherwise 200 (stated for the requests whose body can be read).
C1_StatusAsClaimed ==
    (Responded /\ ~last.readErr) =>
        ResponseStatus =
            IF secret # <<>> /\ ~SignatureValid(last) THEN StatusUnauthorized
            ELSE IF Supported(last) /\ ~Decodable(last) THEN StatusBadRequest
            ELSE StatusOK

\* C1 (amended): the response status is 400 when a secret is configured and
\* the signature header is absent, or when the body cannot be read;
\* otherwise 401 when a secret is configured and the header value is not the
\* body's signature; otherwise 400 when the event type is pull_request or
\* check_run and the body does not decode; otherwise 200.
C1_StatusByClass ==
    Responded =>
        ResponseStatus =
            IF secret # <<>> /\ last.signature = <<>> THEN StatusBadRequest
            ELSE IF last.readErr THEN StatusBadRequest
            ELSE IF secret # <<>> /\ ~SignatureValid(last) THEN StatusUnauthorized
            ELSE IF Supported(last) /\ ~Decodable(last) THEN StatusBadRequest
            ELSE StatusOK

C1_Witness ==
    /\ Responded
    /\ secret # <<>>
    /\ last.signature = <<>>
    /\ ~last.readErr
    /\ ResponseStatus = StatusBadRequest

\* C2: an event handler is entered, or has run, only for a request that was
\* authenticated and whose body decoded; a request with a bad or missing
\* signature, or with a body that cannot be read or decoded, is answered
\* with an error status and leaves the goroutine out of every handler.
C2_OnlyAuthenticatedDecoded ==
    last.stage # "no request" =>
        /\ (pc[1] # "idle" \/ runs[1] # <<>> \/ ev[1] # NoEvent \/ last.handler # "none")
              => (Authenticated(last) /\ Supported(last) /\ Decodable(last))
        /\ (~Authenticated(last) \/ last.readErr \/ (Supported(last) /\ ~Decodable(last)))
              => (last.handler = "none" /\ last.status >= StatusBadRequest)

C2_Witness ==
    /\ secret # <<>>
    /\ last.stage = "signature"
    /\ last.status = StatusUnauthorized
    /\ Supported(last) /\ Decodable(last)
    /\ pc[1] = "idle" /\ runs[1] = <<>>

\* C4: with no secret configured no signature is verified and the request
\* goes where its event type and body alone send it, whatever its header;
\* with a secret configured a request gets to the event switch only after
\* verifyWebhookSignature accepted its header.
C4_VerificationBySecret ==
    last.stage # "no request" =>
        /\ secret = <<>> =>
              /\ last.verify = "none"
              /\ last.stage = IF last.readErr THEN "read"
                              ELSE IF ~Supported(last) THEN "unhandled"
                              ELSE IF Decodable(last) THEN "handler" ELSE "decode"
        /\ (secret # <<>> /\ last.stage \in {"unhandled", "decode", "handler"})
              => (last.verify = "passed" /\ SignatureValid(last))

C4_Witness ==
    /\ secret = <<>>
    /\ last.signature # <<>>
    /\ ~SignatureValid(last)
    /\ last.stage = "handler"
    /\ Responded

\* C5 as stated: a request of another event type gets no handler and no
\* error status; a request of a supported type with a decodable body gets
\* exactly its handler, once (stated for the requests whose body can be read).
C5_DispatchAsClaimed ==
    (Responded /\ ~last.readErr) =>
        /\ ~Supported(last) => (runs[1] = <<>> /\ ResponseStatus < StatusBadRequest)
        /\ (Supported(last) /\ Decodable(last)) => runs[1] = <<MatchingHandler(last)>>

\* C5 (amended): of the requests that pass the signature check and whose body
\* is read, one of another event type gets no handler and the status 200,
\* and one of a supported type with a decodable body gets exactly its
\* handler, once.
C5_DispatchByEventType ==
    (Responded /\ Authenticated(last) /\ ~last.readErr
       /\ ~(secret # <<>> /\ last.signature = <<>>)) =>
        /\ ~Supported(last) => (runs[1] = <<>> /\ ResponseStatus = StatusOK)
        /\ (Supported(last) /\ Decodable(last)) => runs[1] = <<MatchingHandler(last)>>

C5_Witness ==
    /\ Responded
    /\ secret # <<>>
    /\ SignatureValid(last)
    /\ last.eventType = "push"
    /\ ResponseStatus = StatusOK
    /\ runs[1] = <<>>

----------------------------------------------------------------------------
(* The claims on the handling of events, under Spec *)

InHandler(g) == pc[g] \in {"HandlePullRequestEvent", "HandleCheckRunEvent"}

Quiescent == \A g \in Goroutines : pc[g] = "idle"

\* C6 as stated: once the event is handed to the handler, webhookHandler can
\* complete its response without the handler having returned.
C6_ResponseDoesNotWait ==
    \A g \in Goroutines : InHandler(g) => ENABLED WriteResponse(g)

\* The checks tracked for the commit: those a check_run event was handled for.
Tracked == {n \in CheckNames : applied[n] # ZeroCheckRun}

FailureConclusions == {"failure", "timed_out", "action_required", "cancelled", "stale"}

SuccessConclusions == {"success", "neutral", "skipped"}

Succeeded(c) == c.Status = "completed" /\ c.Conclusion \in SuccessConclusions

Failed(c) == c.Status = "completed" /\ c.Conclusion \in FailureConclusions

\* The aggregate decision the claims give for the tracked checks.
ClaimedDecision ==
    IF \E n \in Tracked : Failed(applied[n]) THEN "failure"
    ELSE IF Tracked # {} /\ \A n \in Tracked : Succeeded(applied[n]) THEN "success"
    ELSE "in_progress"

\* The decision the server has taken for the guard: that of its last
\* check-run call ("none": it has made no call).
GuardDecision ==
    IF guardCalls = <<>> THEN "none"
    ELSE IF guardCalls[Len(guardCalls)].Status = "completed"
         THEN guardCalls[Len(guardCalls)].Conclusion
         ELSE "in_progress"

\* C7 as stated: once the check_run events received have been handled, the
\* server's decision for the commit is the aggregate of the tracked checks.
C7_DecisionAsClaimed ==
    (Quiescent /\ Tracked # {}) => GuardDecision = ClaimedDecision

C9_FailureInAnyOrder ==
    (/\ Quiescent
     /\ Succeeded(applied["build"])
     /\ Succeeded(applied["test"])
     /\ Failed(applied["lint"]))
        => (/\ guardCalls # <<>>
            /\ guardCalls[Len(guardCalls)].call = "UpdateCheckRun"
            /\ guardCalls[Len(guardCalls)].Status = "completed"
            /\ guardCalls[Len(guardCalls)].Conclusion = "failure")

GuardedActions == {"opened", "reopened", "synchronize"}

\* C11 as stated: once HandlePullRequestEvent has run on a pull_request
\* event whose action is opened, reopened or synchronize, a guard check run
\* has been created with status in_progress and no conclusion, and only one.
C11_GuardCreatedOnPullRequest ==
    \A g \in Goroutines :
        (/\ pc[g] = "returned"
         /\ runs[g] = <<"HandlePullRequestEvent">>
         /\ ev[g].Action \in GuardedActions)
            => /\ \E i \in DOMAIN guardCalls :
                     /\ guardCalls[i].call = "CreateCheckRun"
                     /\ guardCalls[i].Status = "in_progress"
                     /\ guardCalls[i].Conclusion = ""
               /\ Cardinality({i \in DOMAIN guardCalls :
                                  guardCalls[i].call = "CreateCheckRun"}) = 1

\* C15 as stated: at most one goroutine at a time is in an event handler
\* for one (repository, commit) key.  Every payload of the model is for the
\* same repository and commit.
C15_OneWorkerPerKey ==
    Cardinality({g \in Goroutines : InHandler(g)}) <= 1

\* The check-run updates the event handlers have issued.
GuardUpdates == {i \in DOMAIN guardCalls : guardCalls[i].call = "UpdateCheckRun"}

\* C16 as stated, for the interval W = 0 (the only one the server has:
\* ServerConfig has no periodic-refresh field): each mutating event is
\* followed by its own update, so once the events received are handled
\* there are at least as many updates as checks that reported.
C16_UpdatePerMutatingEvent ==
    Quiescent => Cardinality(GuardUpdates) >= Cardinality(Tracked)

----------------------------------------------------------------------------
(* PRClient: the check-run REST calls of pkg/client/api.go.  A string built *)
(* by concatenation or Sprintf is the sequence of its parts.                *)

StatusCreated == 201

\* The repository URLs a PRClient is given: one that parses, and ":" (for
\* which url.Parse reports a missing protocol scheme).
RepoURLs == {"https://api.github.com/repos/o/r", ":"}

Commits == {"c1", "c2"}

Tokens == {"", "ghs_1"}

PRClients == {[repoURL |-> u, commit |-> c, token |-> t] :
                 u \in RepoURLs, c \in Commits, t \in Tokens}

\* http.NewRequest(method, url, nil) fails when url.Parse(url) does.
URLParses(url) == Head(url) # ":"

\* commonHeaders without the API version header.
commonHeadersWithoutVersion(token) ==
    [h \in {"accept"} \cup (IF token # "" THEN {"Authorization"} ELSE {}) |->
        IF h = "accept" THEN <<"application/vnd.github+json">> ELSE <<"Bearer ", token>>]

\* commonHeaders(req, token): the headers it sets on the request.
commonHeaders(token) ==
    [h \in {"accept", "X-GitHub-Api-Version"}
           \cup (IF token # "" THEN {"Authorization"} ELSE {}) |->
        CASE h = "accept" -> <<"application/vnd.github+json">>
          [] h = "X-GitHub-Api-Version" -> <<"2022-11-28">>
          [] h = "Authorization" -> <<"Bearer ", token>>]

\* A request without a body (GET).
NoBody == [f \in {} |-> ""]

\* json.Marshal(payload) of a CheckRun: every field is omitempty, so the
\* object has the fields whose value is not the zero value.
Marshal(payload) ==
    [f \in {f \in DOMAIN payload : payload[f] # ZeroPayload[f]} |-> payload[f]]

\* What http.DefaultClient.Do(req) comes back with: a transport failure, or
\* GitHub's response with its status and a body that decodes or not.
ResponseStatuses == {StatusOK, StatusCreated, StatusUnauthorized, 404, 500}

Responses ==
    {[transportErr |-> TRUE, status |-> 0, bodyOK |-> FALSE]}
    \cup {[transportErr |-> FALSE, status |-> st, bodyOK |-> b] :
             st \in ResponseStatuses, b \in BOOLEAN}

\* The outcome of a call that sent no request.
NotSent(err) == [requests |-> <<>>, response |-> NoResponse, err |-> err, result |-> <<>>]

\* The outcome of a call that sent req and got res.
Sent(req, res, err, result) ==
    [requests |-> <<req>>, response |-> res, err |-> err, result |-> result]

\* func (c *PRClient) GetCheckRuns() ([]CheckRun, error), answered with res.
GetCheckRunsOutcome(c, res) ==
    LET url == <<c.repoURL, "/commits/", c.commit, "/check-runs">>
        req == [method |-> "GET", url |-> url, headers |-> commonHeaders(c.token),
                body |-> NoBody]
    IN  IF ~URLParses(url) THEN NotSent("request")
        ELSE IF res.transportErr THEN Sent(req, res, "transport", <<>>)
        ELSE IF res.status # StatusOK THEN Sent(req, res, "status", <<>>)
        ELSE IF ~res.bodyOK THEN Sent(req, res, "decode", <<>>)
        ELSE Sent(req, res, "nil", <<"runs.CheckRuns">>)

\* The payload CreateCheckRun builds (StartedAt and Output are left out).
CreateCheckRunPayload(c, name) ==
    [ZeroPayload EXCEPT !.Name = name, !.HeadSHA = c.commit, !.Status = "pending"]

\* CreateCheckRun's error from the response, a body that does not decode
\* taken for a failure.
CreateCheckRunErrOnDecode(res) ==
    IF res.transportErr THEN "transport"
    ELSE IF res.status # StatusCreated THEN "status"
    ELSE IF ~res.bodyOK THEN "decode" ELSE "nil"

\* CreateCheckRun's error from the response: a body that does not decode is
\* only logged.
CreateCheckRunErr(res) ==
    IF res.transportErr THEN "transport"
    ELSE IF res.status # StatusCreated THEN "status"
    ELSE "nil"

\* func (c *PRClient) CreateCheckRun(name string) error, answered with res.
CreateCheckRunOutcome(c, name, res) ==
    LET url == <<c.repoURL, "/check-runs">>
        req == [method |-> "POST", url |-> url, headers |-> commonHeaders(c.token),
                body |-> Marshal(CreateCheckRunPayload(c, name))]
    IN  IF ~URLParses(url) THEN NotSent("request")
        ELSE Sent(req, res, CreateCheckRunErr(res), <<>>)

RECURSIVE SprintfDecimal(_)
\* fmt.Sprintf("%d", n): the decimal digits of n, after a minus sign when n < 0.
SprintfDecimal(n) ==
    IF n < 0 THEN <<"-">> \o SprintfDecimal(0 - n)
    ELSE IF n < 10 THEN <<HexDigits[n + 1]>>
    ELSE SprintfDecimal(n \div 10) \o <<HexDigits[(n % 10) + 1]>>

\* UpdateCheckRun without the check of the payload's ID.
UpdateCheckRunWithoutIDCheck(c, payload, res) ==
    LET url == <<c.repoURL, "/check-runs/">> \o SprintfDecimal(payload.ID)
        req == [method |-> "PATCH", url |-> url, headers |-> commonHeaders(c.token),
                body |-> Marshal(payload)]
    IN  IF ~URLParses(url) THEN NotSent("request")
        ELSE IF res.transportErr THEN Sent(req, res, "transport", <<>>)
        ELSE IF res.status # StatusOK THEN Sent(req, res, "status", <<>>)
        ELSE Sent(req, res, "nil", <<>>)

\* func (c *PRClient) UpdateCheckRun(payload CheckRun) error, answered with res.
UpdateCheckRunOutcome(c, payload, res) ==
    LET url == <<c.repoURL, "/check-runs/">> \o SprintfDecimal(payload.ID)
        req == [method |-> "PATCH", url |-> url, headers |-> commonHeaders(c.token),
                body |-> Marshal(payload)]
    IN  IF payload.ID = 0 THEN NotSent("id")
        ELSE IF ~URLParses(url) THEN NotSent("request")
        ELSE IF res.transportErr THEN Sent(req, res, "transport", <<>>)
        ELSE IF res.status # StatusOK THEN Sent(req, res, "status", <<>>)
        ELSE Sent(req, res, "nil", <<>>)

CheckRunNames == {"guard", ""}

CheckRunIDs == {0, 42, 0 - 1}

\* The payloads UpdateCheckRun is called with.
UpdatePayloads ==
    {[ZeroPayload EXCEPT !.ID = id, !.Status = "completed", !.Conclusion = "success"] :
        id \in CheckRunIDs}
    \cup {[ZeroPayload EXCEPT !.ID = id, !.Status = "in_progress"] : id \in CheckRunIDs}

\* The call's outcome recorded on the client it was made on.
Called(op, name, payload, outcome) ==
    /\ api' = [client |-> api.client, op |-> op, name |-> name, payload |-> payload,
               requests |-> outcome.requests, response |-> outcome.response,
               err |-> outcome.err, result |-> outcome.result]
    /\ ServerUnchanged
    /\ UNCHANGED <<sigCase, githubConfig, tokenCalls, exchanges, clock, loadCall>>

\* client := &PRClient{repoURL: ..., commit: ..., token: ...}
InitAPI ==
    /\ secret = <<>>
    /\ ServerIdle
    /\ sigCase = NoSigCase
    /\ TokenIdle
    /\ ConfigIdle
    /\ \E c \in PRClients : api = [NoCall EXCEPT !.client = c]

\* checkRuns, err := client.GetCheckRuns()
GetCheckRuns ==
    \E res \in Responses :
        Called("GetCheckRuns", "", ZeroPayload, GetCheckRunsOutcome(api.client, res))

\* err := client.CreateCheckRun(name)
CreateCheckRun ==
    \E name \in CheckRunNames, res \in Responses :
        Called("CreateCheckRun", name, ZeroPayload,
               CreateCheckRunOutcome(api.client, name, res))

\* err := client.UpdateCheckRun(payload)
UpdateCheckRun ==
    \E payload \in UpdatePayloads, res \in Responses :
        Called("UpdateCheckRun", "", payload,
               UpdateCheckRunOutcome(api.client, payload, res))

NextAPI == GetCheckRuns \/ CreateCheckRun \/ UpdateCheckRun

SpecAPI == InitAPI /\ [][NextAPI]_vars

----------------------------------------------------------------------------
(* The claims on the REST calls, under SpecAPI *)

\* C12: CreateCheckRun(name) sends no request when the URL of the repository
\* does not parse, and otherwise exactly one POST to <repoURL>/check-runs
\* whose body has name = name, head_sha = the client's commit, status =
\* "pending" and no conclusion; it returns nil exactly when a response came
\* back with status 201, whatever its body.
C12_CreateCheckRunContract ==
    api.op = "CreateCheckRun" =>
        /\ Len(api.requests) = IF api.client.repoURL = ":" THEN 0 ELSE 1
        /\ \A i \in DOMAIN api.requests :
              /\ api.requests[i].method = "POST"
              /\ api.requests[i].url = <<api.client.repoURL, "/check-runs">>
              /\ DOMAIN api.requests[i].body
                    = {"HeadSHA", "Status"} \cup (IF api.name = "" THEN {} ELSE {"Name"})
              /\ "Name" \in DOMAIN api.requests[i].body
                    => api.requests[i].body["Name"] = api.name
              /\ api.requests[i].body["HeadSHA"] = api.client.commit
              /\ api.requests[i].body["Status"] = "pending"
        /\ api.err = "nil" <=> (/\ api.requests # <<>>
                                /\ ~api.response.transportErr
                                /\ api.response.status = 201)

C12_Witness ==
    /\ api.op = "CreateCheckRun"
    /\ api.name = "guard"
    /\ api.response.status = 201
    /\ ~api.response.bodyOK
    /\ api.err = "nil"
    /\ Len(api.requests) = 1

\* C17 as stated: a call answered with 401 is made again, once, with another
\* token; a call answered with 404 is not made again and fails.
C17_RetryOnUnauthorized ==
    /\ (api.requests # <<>> /\ api.response.status = 401) =>
          /\ Len(api.requests) = 2
          /\ api.requests[2].headers # api.requests[1].headers
    /\ (api.requests # <<>> /\ api.response.status = 404) =>
          /\ Len(api.requests) = 1
          /\ api.err # "nil"

\* The URL each call is made to, for the client and arguments of the call.
ClaimedURL ==
    CASE api.op = "GetCheckRuns" ->
            <<api.client.repoURL, "/commits/", api.client.commit, "/check-runs">>
      [] api.op = "CreateCheckRun" -> <<api.client.repoURL, "/check-runs">>
      [] api.op = "UpdateCheckRun" ->
            <<api.client.repoURL, "/check-runs/">>
                \o (IF api.payload.ID = 42 THEN <<"4", "2">> ELSE <<"-", "1">>)

\* C19 as stated: every request the three calls send carries accept,
\* X-GitHub-Api-Version and Authorization: Bearer <token>, and goes to the
\* URL of its call.
C19_HeadersAsStated ==
    \A i \in DOMAIN api.requests :
        /\ DOMAIN api.requests[i].headers = {"accept", "X-GitHub-Api-Version", "Authorization"}
        /\ api.requests[i].headers["accept"] = <<"application/vnd.github+json">>
        /\ api.requests[i].headers["X-GitHub-Api-Version"] = <<"2022-11-28">>
        /\ api.requests[i].headers["Authorization"] = <<"Bearer ", api.client.token>>
        /\ api.requests[i].url = ClaimedURL

\* C19 (amended): every request the three calls send carries accept and
\* X-GitHub-Api-Version, carries Authorization: Bearer <token> when the
\* client's token is not empty and no Authorization header when it is
\* empty, and goes to the URL of its call.
C19_HeadersByToken ==
    \A i \in DOMAIN api.requests :
        /\ DOMAIN api.requests[i].headers =
              IF api.client.token = "" THEN {"accept", "X-GitHub-Api-Version"}
              ELSE {"accept", "X-GitHub-Api-Version", "Authorization"}
        /\ api.requests[i].headers["accept"] = <<"application/vnd.github+json">>
        /\ api.requests[i].headers["X-GitHub-Api-Version"] = <<"2022-11-28">>
        /\ api.client.token # "" =>
              api.requests[i].headers["Authorization"] = <<"Bearer ", api.client.token>>
        /\ api.requests[i].url = ClaimedURL

C19_Witness ==
    /\ api.op = "UpdateCheckRun"
    /\ api.payload.ID = 42
    /\ api.client.token = ""
    /\ Len(api.requests) = 1
    /\ "Authorization" \notin DOMAIN api.requests[1].headers

\* C21 as stated: a create or update call that fails (a transport failure
\* or a 500 from GitHub) is made again, a bounded number of times.
C21_FailedCallRetried ==
    (/\ api.op \in {"CreateCheckRun", "UpdateCheckRun"}
     /\ api.requests # <<>>
     /\ (api.response.transportErr \/ api.response.status = 500))
        => Len(api.requests) >= 2

\* C23: UpdateCheckRun with a payload whose ID is 0 returns an error and
\* sends no request; with another ID it sends exactly one PATCH (none when
\* the URL of the repository does not parse) and returns nil exactly when a
\* response came back with status 200.
C23_UpdateCheckRunContract ==
    api.op = "UpdateCheckRun" =>
        /\ api.payload.ID = 0 => (api.requests = <<>> /\ api.err # "nil")
        /\ api.payload.ID # 0 =>
              /\ Len(api.requests) = IF api.client.repoURL = ":" THEN 0 ELSE 1
              /\ \A i \in DOMAIN api.requests : api.requests[i].method = "PATCH"
              /\ api.err = "nil" <=> (/\ api.requests # <<>>
                                      /\ ~api.response.transportErr
                                      /\ api.response.status = 200)

C23_Witness ==
    /\ api.op = "UpdateCheckRun"
    /\ api.payload.ID = 0
    /\ api.client.repoURL # ":"
    /\ api.requests = <<>>
    /\ api.err = "id"

----------------------------------------------------------------------------
(* GithubClient: createJWT and GetInstallationAccessToken (client.go)       *)

\* time.Second, in ticks of the clock.
Second == 2

Minute == 60 * Second

\* The clock when a run starts.
StartClock == 100 * Second

\* jwt.NewNumericDate(t): t truncated to whole seconds, as a Unix time.
NewNumericDate(t) == t \div Second

\* The files c.PrivateKey may name: an RSA key in PEM, a file that is not
\* there, a file that is not a PEM key.
KeyFiles == {"key.pem", "missing.pem", "garbage.pem"}

\* os.ReadFile(path) succeeds.
ReadFileOK(path) == path # "missing.pem"

\* jwt.ParseRSAPrivateKeyFromPEM(f) succeeds.
ParseKeyOK(path) == path = "key.pem"

GithubConfigs ==
    {[ClientID |-> "Iv1.app", PrivateKey |-> k, API |-> a] :
        k \in KeyFiles, a \in {"https://api.github.com", ":"}}

NoJWT == [alg |-> "", iat |-> 0, exp |-> 0, iss |-> "", claimedAlg |-> ""]

\* createJWT with the clock read once.
createJWTReadingClockOnce(config, t1, t2) ==
    IF ~ReadFileOK(config.PrivateKey) THEN [err |-> "read", token |-> "", jwt |-> NoJWT]
    ELSE IF ~ParseKeyOK(config.PrivateKey) THEN [err |-> "parse", token |-> "", jwt |-> NoJWT]
    ELSE [err |-> "nil", token |-> "jwt",
          jwt |-> [alg |-> "RS256",
                   iat |-> NewNumericDate(t1 - 30 * Second),
                   exp |-> NewNumericDate(t1 + 5 * Minute),
                   iss |-> config.ClientID,
                   claimedAlg |-> "RS256"]]

\* func (c *GithubClient) createJWT() (string, error), its two time.Now()
\* reading t1 and then t2.  The signed string is "jwt"; jwt is what it
\* carries: the header's alg and the claims iat, exp, iss, alg.
createJWT(config, t1, t2) ==
    IF ~ReadFileOK(config.PrivateKey) THEN [err |-> "read", token |-> "", jwt |-> NoJWT]
    ELSE IF ~ParseKeyOK(config.PrivateKey) THEN [err |-> "parse", token |-> "", jwt |-> NoJWT]
    ELSE [err |-> "nil", token |-> "jwt",
          jwt |-> [alg |-> "RS256",
                   iat |-> NewNumericDate(t1 - 30 * Second),
                   exp |-> NewNumericDate(t2 + 5 * Minute),
                   iss |-> config.ClientID,
                   claimedAlg |-> "RS256"]]

Installations == {1, 2}

\* The goroutines that ask for installation tokens.
TokenCallers == {1, 2}

\* What the access-token endpoint answers: a transport failure, or a status
\* with a body: "token" (an object with token and expires_at), "empty" (an
\* object without them) or "garbage" (not JSON).
TokenResponses ==
    {[transportErr |-> TRUE, status |-> 0, body |-> "none"]}
    \cup {[transportErr |-> FALSE, status |-> StatusCreated, body |-> b] :
             b \in {"token", "empty", "garbage"}}
    \cup {[transportErr |-> FALSE, status |-> StatusUnauthorized, body |-> "token"]}

\* The token GitHub issues for the n-th exchange: a new one each time.
IssuedToken(n) == "ghs_" \o ToString(n)

\* GetInstallationAccessToken returning whatever token the response had,
\* its status not looked at.
TokenResultIgnoringStatus(res, n) ==
    IF res.transportErr THEN [token |-> "", err |-> "transport"]
    ELSE IF res.body = "garbage" THEN [token |-> "", err |-> "decode"]
    ELSE [token |-> IF res.body = "token" THEN IssuedToken(n) ELSE "", err |-> "nil"]

\* GetInstallationAccessToken from the return of http.DefaultClient.Do:
\* the token and error it returns for the response to the n-th exchange.
TokenResult(res, n) ==
    IF res.transportErr THEN [token |-> "", err |-> "transport"]
    ELSE IF res.status # StatusCreated THEN [token |-> "", err |-> "status"]
    ELSE IF res.body = "garbage" THEN [token |-> "", err |-> "decode"]
    ELSE [token |-> IF res.body = "token" THEN IssuedToken(n) ELSE "", err |-> "nil"]

\* An exchange for installation i has already been answered with a token.
TokenObtained(i) ==
    \E m \in DOMAIN exchanges :
        exchanges[m].installation = i /\ exchanges[m].outcome = "ok"

\* The exchanges for installation i that are sent and not answered yet.
ExchangesInFlight(i) ==
    {m \in DOMAIN exchanges :
        exchanges[m].installation = i /\ exchanges[m].outcome = "pending"}

\* client := NewGithubClient(cfg), no call made yet.
InitToken ==
    /\ secret = <<>>
    /\ ServerIdle
    /\ sigCase = NoSigCase
    /\ api = NoCall
    /\ githubConfig \in GithubConfigs
    /\ tokenCalls = [g \in Goroutines |-> NoTokenCall]
    /\ exchanges = <<>>
    /\ clock \in {StartClock, StartClock + 1}
    /\ ConfigIdle

\* Goroutine g calls GetInstallationAccessToken(i): createJWT, NewRequest
\* and commonHeaders, up to the request's being sent by Do.  The second
\* time.Now() of createJWT reads the tick of the first or the next one.  Each exchange
\* is recorded with the JWT it carries, the two clock readings of createJWT
\* whether a token for i had been obtained before, and the exchanges for i
\* that are not answered yet.
GetInstallationAccessToken(g) ==
    /\ tokenCalls[g].pc \in {"idle", "returned"}
    /\ Len(exchanges) < MaxExchanges
    /\ \E i \in Installations, d \in {0, 1} :
         LET t1 == clock
             t2 == clock + d
             j == createJWT(githubConfig, t1, t2)
             url == <<githubConfig.API, "/app/installations/">>
                        \o SprintfDecimal(i) \o <<"/access_tokens">>
             call == [NoTokenCall EXCEPT !.installation = i]
         IN  /\ t2 <= StartClock + MaxElapsed
             /\ clock' = t2
             /\ IF j.err # "nil"
                THEN /\ tokenCalls' = [tokenCalls EXCEPT
                                         ![g] = [call EXCEPT !.pc = "returned", !.err = "jwt"]]
                     /\ UNCHANGED exchanges
                ELSE IF ~URLParses(url)
                THEN /\ tokenCalls' = [tokenCalls EXCEPT
                                         ![g] = [call EXCEPT !.pc = "returned", !.err = "request"]]
                     /\ UNCHANGED exchanges
                ELSE /\ tokenCalls' = [tokenCalls EXCEPT
                                         ![g] = [call EXCEPT !.pc = "awaiting",
                                                             !.exchange = Len(exchanges) + 1]]
                     /\ exchanges' = Append(exchanges,
                                        [installation |-> i, method |-> "POST", url |-> url,
                                         headers |-> commonHeaders(j.token), jwt |-> j.jwt,
                                         t1 |-> t1, t2 |-> t2,
                                         cached |-> TokenObtained(i),
                                         inFlight |-> ExchangesInFlight(i),
                                         outcome |-> "pending"])
    /\ ServerUnchanged
    /\ UNCHANGED <<sigCase, api, githubConfig, loadCall>>

\* Do returns for goroutine g, and GetInstallationAccessToken returns.
ReceiveTokenResponse(g) ==
    /\ tokenCalls[g].pc = "awaiting"
    /\ \E res \in TokenResponses :
         LET n == tokenCalls[g].exchange
             r == TokenResult(res, n)
         IN  /\ tokenCalls' = [tokenCalls EXCEPT
                                 ![g] = [@ EXCEPT !.pc = "returned", !.response = res,
                                                  !.token = r.token, !.err = r.err]]
             /\ exchanges' = [exchanges EXCEPT
                                ![n].outcome = IF /\ ~res.transportErr
                                                  /\ res.status = StatusCreated
                                                  /\ res.body = "token"
                                               THEN "ok" ELSE "failed"]
    /\ ServerUnchanged
    /\ UNCHANGED <<sigCase, api, githubConfig, clock, loadCall>>

NextToken ==
    \E g \in TokenCallers :
        \/ GetInstallationAccessToken(g)
        \/ ReceiveTokenResponse(g)

SpecToken == InitToken /\ [][NextToken]_vars

----------------------------------------------------------------------------
(* The claims on installation tokens and App JWTs, under SpecToken.  A run  *)
(* lasts MaxElapsed ticks: every token obtained in it is far from its       *)
(* expiry (GitHub's tokens last one hour) throughout.                       *)

\* C13 as stated: once an exchange for an installation has been answered
\* with a token, no further POST is sent to the access-token endpoint for
\* that installation while the token is far from its expiry.
C13_ServedFromCache ==
    \A n \in DOMAIN exchanges : ~exchanges[n].cached

\* C14 as stated: no exchange is sent for an installation without a token
\* while another exchange for it is outstanding (two concurrent calls make
\* one exchange), and two calls that were in GetInstallationAccessToken at
\* the same time for that installation return the same token.
C14_SingleFlight ==
    /\ \A n \in DOMAIN exchanges :
          ~exchanges[n].cached => exchanges[n].inFlight = {}
    /\ \A g, h \in TokenCallers :
          (/\ tokenCalls[g].pc = "returned" /\ tokenCalls[g].err = "nil"
           /\ tokenCalls[h].pc = "returned" /\ tokenCalls[h].err = "nil"
           /\ tokenCalls[g].installation = tokenCalls[h].installation
           /\ tokenCalls[h].exchange \in exchanges[tokenCalls[g].exchange].inFlight)
              => tokenCalls[g].token = tokenCalls[h].token

\* C18: a call of GetInstallationAccessToken that has returned has a nil
\* error exactly when the private key was read and parsed, the exchange was
\* answered with status 201 and the body decoded; with an error the token it
\* returns is empty; and with a key that cannot be read or parsed no request
\* is ever sent.
C18_TokenOnlyOnSuccess ==
    /\ \A g \in TokenCallers :
          tokenCalls[g].pc = "returned" =>
              /\ tokenCalls[g].err = "nil" <=>
                    /\ githubConfig.PrivateKey = "key.pem"
                    /\ tokenCalls[g].exchange # 0
                    /\ ~tokenCalls[g].response.transportErr
                    /\ tokenCalls[g].response.status = 201
                    /\ tokenCalls[g].response.body \in {"token", "empty"}
              /\ tokenCalls[g].err # "nil" => tokenCalls[g].token = ""
    /\ githubConfig.PrivateKey # "key.pem" => exchanges = <<>>

C18_Witness ==
    \E g, h \in TokenCallers :
        /\ tokenCalls[g].pc = "returned"
        /\ tokenCalls[g].response.status = 401
        /\ tokenCalls[g].response.body = "token"
        /\ tokenCalls[g].err = "status"
        /\ tokenCalls[g].token = ""
        /\ tokenCalls[h].pc = "returned"
        /\ tokenCalls[h].err = "nil"
        /\ tokenCalls[h].token # ""

\* A second witness of C18's last case is any run with a key that does not
\* parse: this one has made a call and sent nothing.
C18_NoRequestWithoutJWT ==
    \E g \in TokenCallers :
        /\ githubConfig.PrivateKey = "garbage.pem"
        /\ tokenCalls[g].pc = "returned"
        /\ tokenCalls[g].err = "jwt"
        /\ exchanges = <<>>

\* C20 as stated: a JWT created at time t has issuer = the client id,
\* iat = t - 30 s, exp = t + 5 min (in whole seconds), a lifetime of at most
\* 5 min 30 s, and is signed with RS256.
C20_ClaimsAsStated ==
    \A n \in DOMAIN exchanges :
        LET j == exchanges[n].jwt
            t == exchanges[n].t1 \div 2
        IN  /\ j.iss = githubConfig.ClientID
            /\ j.alg = "RS256"
            /\ j.iat = t - 30
            /\ j.exp = t + 300
            /\ j.iat < t /\ t < j.exp
            /\ j.exp - j.iat <= 330

\* C20 (amended): createJWT reads the clock twice, at t1 and then at t2 >= t1.
\* The JWT has issuer = the client id, iat = t1 - 30 s and exp = t2 + 5 min
\* (in whole seconds), so that iat < t1 <= t2 < exp and its lifetime is
\* 5 min 30 s plus the whole seconds between the two readings; it is signed
\* with RS256.
C20_ClaimsByClockReading ==
    \A n \in DOMAIN exchanges :
        LET j == exchanges[n].jwt
            s1 == exchanges[n].t1 \div 2
            s2 == exchanges[n].t2 \div 2
        IN  /\ j.iss = githubConfig.ClientID
            /\ j.alg = "RS256"
            /\ j.iat = s1 - 30
            /\ j.exp = s2 + 300
            /\ j.iat < s1 /\ s1 <= s2 /\ s2 < j.exp
            /\ j.exp - j.iat = 330 + (s2 - s1)

C20_Witness ==
    \E n \in DOMAIN exchanges :
        /\ exchanges[n].t1 \div 2 < exchanges[n].t2 \div 2
        /\ exchanges[n].jwt.exp - exchanges[n].jwt.iat = 331

----------------------------------------------------------------------------
(* pkg/config: LoadConfig, and run (the root command) which calls it        *)

DEFAULT_CONFIG_PATH == "/config/config.yaml"

DEFAULT_LOG_LEVEL == "info"

DEFAULT_SERVER_PORT == 8080

DEFAULT_API_URL == "https://api.github.com"

\* DefaultConfig with a client id set.
DefaultConfigWithClientID ==
    [ZeroConfig EXCEPT !.LogLevel = DEFAULT_LOG_LEVEL,
                       !.Server.Port = DEFAULT_SERVER_PORT,
                       !.Github.API = DEFAULT_API_URL,
                       !.Github.ClientID = "Iv1.app",
                       !.Github.PrivateKey = "key.pem"]

\* func DefaultConfig() Config
DefaultConfig ==
    [ZeroConfig EXCEPT !.LogLevel = DEFAULT_LOG_LEVEL,
                       !.Server.Port = DEFAULT_SERVER_PORT,
                       !.Github.API = DEFAULT_API_URL]

\* The YAML documents a configuration file holds: each key is absent (<<>>)
\* or has one value.  "$APP_ID" is a reference to an environment variable.
ConfigDocs ==
    [logLevel : {<<>>, <<"DEBUG">>, <<"verbose">>},
     sslEnabled : {<<>>, <<TRUE>>},
     sslCert : {<<>>, <<"tls.crt">>},
     sslKey : {<<>>, <<"tls.key">>},
     clientID : {<<>>, <<"Iv1.app">>, <<"$APP_ID">>},
     privateKey : {<<>>, <<"key.pem">>, <<"missing.pem">>}]

\* The file at the path of the configuration: missing, unreadable, not
\* YAML, or one of the documents.
ConfigFiles ==
    {MissingFile,
     [state |-> "unreadable", yamlOK |-> FALSE, doc |-> EmptyDoc],
     [state |-> "ok", yamlOK |-> FALSE, doc |-> EmptyDoc]}
    \cup {[state |-> "ok", yamlOK |-> TRUE, doc |-> d] : d \in ConfigDocs}

\* os.ExpandEnv on the file's text: "$APP_ID" becomes the value of the
\* environment variable APP_ID (the empty string when it is not set).
ExpandEnv(doc, appID) ==
    [doc EXCEPT !.clientID = IF @ = <<"$APP_ID">> THEN <<appID>> ELSE @]

\* yaml.Unmarshal(f, &c): the keys of the document overwrite the fields of c.
YAMLUnmarshal(doc, c) ==
    [LogLevel |-> IF doc.logLevel = <<>> THEN c.LogLevel ELSE doc.logLevel[1],
     Server |-> [Port |-> c.Server.Port,
                 SSL |-> [Enabled |-> IF doc.sslEnabled = <<>> THEN c.Server.SSL.Enabled
                                      ELSE doc.sslEnabled[1],
                          Cert |-> IF doc.sslCert = <<>> THEN c.Server.SSL.Cert
                                   ELSE doc.sslCert[1],
                          Key |-> IF doc.sslKey = <<>> THEN c.Server.SSL.Key
                                  ELSE doc.sslKey[1]]],
     Github |-> [ClientID |-> IF doc.clientID = <<>> THEN c.Github.ClientID
                              ELSE doc.clientID[1],
                 PrivateKey |-> IF doc.privateKey = <<>> THEN c.Github.PrivateKey
                                ELSE doc.privateKey[1],
                 WebhookSecret |-> c.Github.WebhookSecret,
                 API |-> c.Github.API]]

\* func loadConfigFile(path string, env bool) (Config, error); file is the
\* file at p (path, or DEFAULT_CONFIG_PATH when path is empty).
loadConfigFile(path, env, file, appID) ==
    IF path = "" /\ file.state = "missing" THEN [c |-> DefaultConfig, err |-> "nil"]
    ELSE IF file.state # "ok" THEN [c |-> ZeroConfig, err |-> "read"]
    ELSE IF ~file.yamlOK THEN [c |-> ZeroConfig, err |-> "unmarshal"]
    ELSE [c |-> YAMLUnmarshal(IF env THEN ExpandEnv(file.doc, appID) ELSE file.doc,
                              DefaultConfig),
          err |-> "nil"]

\* strings.ToLower on the level names of the model.
ToLower(s) ==
    CASE s = "DEBUG" -> "debug"
      [] s = "WARN" -> "warn"
      [] OTHER -> s

\* func setLogLevel(level string) error: the error, and the level the logger
\* is set to ("": it is left as it was).
setLogLevel(level) ==
    CASE ToLower(level) = "debug" -> [err |-> "nil", set |-> "DEBUG"]
      [] ToLower(level) = "info" -> [err |-> "nil", set |-> "INFO"]
      [] ToLower(level) = "warn" -> [err |-> "nil", set |-> "WARN"]
      [] ToLower(level) = "error" -> [err |-> "nil", set |-> "ERROR"]
      [] OTHER -> [err |-> "level", set |-> ""]

\* os.OpenFile(path, os.O_RDONLY, 0600) succeeds.
OpenFileOK(path) == path \notin {"", "missing.pem"}

\* LoadConfig without the check of the GitHub client id.
LoadConfigWithoutClientID(path, env, logLevelOverride, file, appID) ==
    LET l == loadConfigFile(path, env, file, appID)
        c == l.c
        lvl == setLogLevel(IF logLevelOverride = "" THEN c.LogLevel ELSE logLevelOverride)
        fail(err, set) == [config |-> ZeroConfig, err |-> err, set |-> set,
                           fileConfig |-> l.c, fileErr |-> l.err]
    IN  IF l.err # "nil" THEN fail("load", "")
        ELSE IF lvl.err # "nil" THEN fail("level", "")
        ELSE IF c.Server.SSL.Enabled /\ (c.Server.SSL.Cert = "" \/ c.Server.SSL.Key = "")
        THEN fail("ssl", lvl.set)
        ELSE IF ~OpenFileOK(c.Github.PrivateKey) THEN fail("key", lvl.set)
        ELSE [config |-> c, err |-> "nil", set |-> lvl.set,
              fileConfig |-> l.c, fileErr |-> l.err]

\* func LoadConfig(path string, env bool, logLevelOverride string) (Config, error):
\* the Config and error it returns, the level it set the logger to ("": none),
\* and what loadConfigFile had returned to it.
LoadConfigResult(path, env, logLevelOverride, file, appID) ==
    LET l == loadConfigFile(path, env, file, appID)
        c == l.c
        lvl == setLogLevel(IF logLevelOverride = "" THEN c.LogLevel ELSE logLevelOverride)
        fail(err, set) == [config |-> ZeroConfig, err |-> err, set |-> set,
                           fileConfig |-> l.c, fileErr |-> l.err]
    IN  IF l.err # "nil" THEN fail("load", "")
        ELSE IF lvl.err # "nil" THEN fail("level", "")
        ELSE IF c.Server.SSL.Enabled /\ (c.Server.SSL.Cert = "" \/ c.Server.SSL.Key = "")
        THEN fail("ssl", lvl.set)
        ELSE IF c.Github.ClientID = "" THEN fail("clientid", lvl.set)
        ELSE IF ~OpenFileOK(c.Github.PrivateKey) THEN fail("key", lvl.set)
        ELSE [config |-> c, err |-> "nil", set |-> lvl.set,
              fileConfig |-> l.c, fileErr |-> l.err]

\* The flags of the command: --config, --env, --log-level.
ConfigPaths == {"", "/etc/cerberus.yaml"}

LogLevelOverrides == {"", "WARN", "bogus"}

\* The value of the environment variable APP_ID ("": not set).
AppIDs == {"", "Iv1.app"}

\* The program is started: run has read its flags and is about to call
\* config.LoadConfig.
InitConfig ==
    /\ secret = <<>>
    /\ ServerIdle
    /\ sigCase = NoSigCase
    /\ api = NoCall
    /\ TokenIdle
    /\ \E path \in ConfigPaths, env \in BOOLEAN, o \in LogLevelOverrides,
          file \in ConfigFiles, appID \in AppIDs :
          loadCall = [NoLoad EXCEPT !.pc = "run", !.path = path, !.env = env,
                                    !.logLevelOverride = o, !.file = file,
                                    !.appID = appID]

ConfigUnchanged ==
    /\ ServerUnchanged
    /\ UNCHANGED <<sigCase, api, githubConfig, tokenCalls, exchanges, clock>>

\* cfg, err := config.LoadConfig(configPath, env, logLevel)
LoadConfig ==
    /\ loadCall.pc = "run"
    /\ LET r == LoadConfigResult(loadCall.path, loadCall.env, loadCall.logLevelOverride,
                                 loadCall.file, loadCall.appID)
       IN  loadCall' = [loadCall EXCEPT
                          !.pc = "loaded", !.config = r.config, !.err = r.err,
                          !.fileConfig = r.fileConfig, !.fileErr = r.fileErr,
                          !.logLevel = IF r.set = "" THEN @ ELSE r.set]
    /\ ConfigUnchanged

\* run returns the error of LoadConfig: the command prints it and exits.
ExitFatal ==
    /\ loadCall.pc = "loaded"
    /\ loadCall.err # "nil"
    /\ loadCall' = [loadCall EXCEPT !.pc = "exited"]
    /\ ConfigUnchanged

\* github := client.NewGithubClient(cfg.Github); server := NewServer(cfg.Server,
\* github); server.Run()
StartServer ==
    /\ loadCall.pc = "loaded"
    /\ loadCall.err = "nil"
    /\ loadCall' = [loadCall EXCEPT !.pc = "serving"]
    /\ githubConfig' = [ClientID |-> loadCall.config.Github.ClientID,
                        PrivateKey |-> loadCall.config.Github.PrivateKey,
                        API |-> loadCall.config.Github.API]
    /\ ServerUnchanged
    /\ UNCHANGED <<sigCase, api, tokenCalls, exchanges, clock>>

NextConfig == LoadConfig \/ ExitFatal \/ StartServer

SpecConfig == InitConfig /\ [][NextConfig]_vars

----------------------------------------------------------------------------
(* The claims on the configuration, under SpecConfig *)

LoadConfigReturned == loadCall.pc \in {"loaded", "exited", "serving"}

\* The configuration file was read and decoded, or there was none to read at
\* the default path.
FileLoads ==
    \/ loadCall.file.state = "ok" /\ loadCall.file.yamlOK
    \/ loadCall.path = "" /\ loadCall.file.state = "missing"

\* The log level in effect: the override when not empty, else the file's,
\* else the default.
EffectiveLogLevel ==
    IF loadCall.logLevelOverride # "" THEN loadCall.logLevelOverride
    ELSE IF loadCall.file.doc.logLevel = <<>> THEN "info"
    ELSE loadCall.file.doc.logLevel[1]

\* The client id in effect: the file's, with the environment variable it
\* names put in its place when variables are expanded.
EffectiveClientID ==
    IF loadCall.file.doc.clientID = <<>> THEN ""
    ELSE IF loadCall.file.doc.clientID = <<"$APP_ID">> /\ loadCall.env THEN loadCall.appID
    ELSE loadCall.file.doc.clientID[1]

\* C22: LoadConfig returns a nil error exactly when the configuration file
\* loads, the log level in effect is debug, info, warn or error (in
\* whatever case it is written), SSL is disabled or has both its cert and
\* its key, the client id is not empty and the private key file opens; with
\* an error it returns the zero Config, and run starts the server only
\* after a nil error.
C22_ValidOrError ==
    LoadConfigReturned =>
        /\ loadCall.err = "nil" <=>
              /\ FileLoads
              /\ EffectiveLogLevel \in {"debug", "info", "warn", "error", "DEBUG", "WARN"}
              /\ \/ loadCall.file.doc.sslEnabled = <<>>
                 \/ loadCall.file.doc.sslCert # <<>> /\ loadCall.file.doc.sslKey # <<>>
              /\ EffectiveClientID # ""
              /\ loadCall.file.doc.privateKey = <<"key.pem">>
        /\ loadCall.err # "nil" => loadCall.config = ZeroConfig
        /\ loadCall.pc = "serving" =>
              /\ loadCall.err = "nil"
              /\ loadCall.config.Github.ClientID = EffectiveClientID

C22_Witness ==
    /\ loadCall.pc = "exited"
    /\ loadCall.env
    /\ loadCall.file.doc.clientID = <<"$APP_ID">>
    /\ loadCall.appID = ""
    /\ loadCall.file.doc.privateKey = <<"key.pem">>
    /\ loadCall.file.doc.sslEnabled = <<>>
    /\ loadCall.logLevelOverride = "WARN"
    /\ loadCall.err = "clientid"
    /\ loadCall.config = ZeroConfig

\* C24: when LoadConfig is called with an empty path and there is no file at
\* the default path, loadConfigFile returns the default values without an
\* error, and LoadConfig returns an error and the zero Config whatever the
\* other arguments: the server is not started.
C24_DefaultsNeverUsable ==
    (LoadConfigReturned /\ loadCall.path = "" /\ loadCall.file.state = "missing") =>
        /\ loadCall.fileErr = "nil"
        /\ loadCall.fileConfig.LogLevel = "info"
        /\ loadCall.fileConfig.Server.Port = 8080
        /\ ~loadCall.fileConfig.Server.SSL.Enabled
        /\ loadCall.fileConfig.Github.API = "https://api.github.com"
        /\ loadCall.fileConfig.Github.ClientID = ""
        /\ loadCall.fileConfig.Github.PrivateKey = ""
        /\ loadCall.err # "nil"
        /\ loadCall.config = ZeroConfig
        /\ loadCall.pc # "serving"

C24_Witness ==
    /\ loadCall.pc = "exited"
    /\ loadCall.path = ""
    /\ loadCall.file.state = "missing"
    /\ loadCall.logLevelOverride = ""
    /\ loadCall.fileConfig.Github.ClientID = ""
    /\ loadCall.err = "clientid"

TypeOK ==
    /\ secret \in Secrets
    /\ pc \in [Goroutines -> {"idle", "HandlePullRequestEvent", "HandleCheckRunEvent", "returned"}]
    /\ status \in [Goroutines -> {0, StatusOK}]
    /\ \A g \in Goroutines : Len(runs[g]) <= 1
    /\ \A g \in Goroutines : pc[g] = "idle" => ev[g] = NoEvent
    /\ guardCalls = <<>>

============================================================================
